---- MODULE Spec2Model ----
(***************************************************************************)
(* A model of nnsplit's tract backend (nnsplit/src/tract_backend.rs), its  *)
(* model loader (nnsplit/src/model_loader.rs) and its JavaScript binding   *)
(* (bindings/javascript/src/lib.rs).                                       *)
(*                                                                         *)
(* Four specifications share the variables; each leaves the variables of   *)
(* the others at their initial values:                                     *)
(*   SpecCache  get_resource called by several processes on one cache      *)
(*   SpecLoad   NNSplit::from_model / NNSplit::new and get_levels          *)
(*   SpecTree   the tree builder and the binding's conversion of its tree  *)
(*   Spec       one split call: windows, predict in sub-batches, trees     *)
(***************************************************************************)
EXTENDS Integers, Sequences, FiniteSets, TLC

VARIABLES
    \* ---- model_loader.rs: the cache directory and the running calls ----
    cache,      \* cache file of the known model: [exists, data]
    cpc,        \* per process: position inside get_resource
    cmodel,     \* per process: the model_name argument
    cbytes,     \* per process: the bytes fetched from the URL
    cret,       \* per process: the value returned, [tag, bytes]
    cnet,       \* per process: a network request was sent during the call
    csaw,       \* per process: the cache file as fs::read found it
    cprior,     \* per process: lastOk as it was when this call started
    lastOk      \* [has, bytes]: the bytes the last successful call returned

VARIABLES
    \* ---- NNSplit::new / from_model and get_levels ----
    lproto,     \* the model file given to the constructor
    splitter,   \* the NNSplit constructed: [loaded, api, n_outputs, levels]
    loadRes,    \* what the constructor returned: "none", "Ok" or an error
    levelsOut   \* [got, names]: what getLevels returned

VARIABLES
    \* ---- the tree builder and the binding's conversion, one text ----
    tText,      \* the text
    tLevels,    \* the split sequence
    tThreshold, \* options.threshold, in thousandths
    tCurve,     \* the probability curve: per byte position, per level
    tTree,      \* the Split the engine built
    tJs,        \* the binding's Split object made from it
    tpc         \* "start", "built", "converted" or "panicked"

cacheVars == <<cache, cpc, cmodel, cbytes, cret, cnet, csaw, cprior, lastOk>>
loadVars == <<lproto, splitter, loadRes, levelsOut>>
VARIABLES
    \* ---- one NNSplit and its split calls ----
    sOpt,       \* NNSplitOptions of the splitter
    sLevels,    \* its split sequence
    texts,      \* the texts of the running call
    api,        \* "rust" (tract_backend.rs) or "js" (the binding)
    inputs,     \* the windows, one row of bytes each
    indices,    \* per window: [text, offset]
    preds,      \* the prediction tensor: per window, position, channel
    start,      \* predict's loop variable
    batches,    \* the sub-batches run so far: <<start, end>> each
    backendErr, \* the error the backend raised in this call, or "none"
    counts,     \* per text: the aggregation count buffer
    curves,     \* per text: the probability curve
    outcome,    \* [tag, err, trees]: what split gave the caller
    pc          \* position inside split

treeVars == <<tText, tLevels, tThreshold, tCurve, tTree, tJs, tpc>>
splitVars == <<sOpt, sLevels, texts, api, inputs, indices, preds, start,
               batches, backendErr, counts, curves, outcome, pc>>

vars == <<cacheVars, loadVars, treeVars, splitVars>>

(***************************************************************************)
(* Levels and the split sequence                                           *)
(***************************************************************************)
MaxLevels == 2
MaxChannels == 2

\* Level names as character sequences: Sentence, Token, _Whitespace and
\* Compound constituent of the de model, shortened.
LevelNames == {<<"S">>, <<"T">>, <<"_", "W">>, <<"C">>}

\* struct Level(pub String)
Level(name) == <<name>>

\* A level is hidden iff its name begins with the marker prefix "_".
Hidden(lv) == Len(lv[1]) > 0 /\ lv[1][1] = "_"

SeqsUpTo(S, n) == UNION {[1..k -> S] : k \in 0..n}

RECURSIVE SelectSeqOp(_, _)
SelectSeqOp(s, keep) ==
    IF s = <<>> THEN <<>>
    ELSE IF keep[1] THEN <<Head(s)>> \o SelectSeqOp(Tail(s), Tail(keep))
    ELSE SelectSeqOp(Tail(s), Tail(keep))

(***************************************************************************)
(* tract_backend.rs: NNSplit::new / from_model; lib.rs: NNSplit::new       *)
(***************************************************************************)
\* The value of the split_sequence metadata key: absent, text that is not
\* the JSON of a split sequence, or the JSON of a sequence of level names.
MetaValues ==
    {[kind |-> "missing", names |-> <<>>], [kind |-> "garbage", names |-> <<>>]}
    \cup {[kind |-> "json", names |-> ns] : ns \in SeqsUpTo(LevelNames, MaxLevels)}

\* A model file: whether tract can type it, its metadata, whether the third
\* dimension of its output is a concrete value, and its output channels.
Protos ==
    [valid : BOOLEAN, meta : MetaValues, dimKnown : BOOLEAN,
     channels : 0..MaxChannels]

NoProto ==
    [valid |-> FALSE, meta |-> [kind |-> "missing", names |-> <<>>],
     dimKnown |-> FALSE, channels |-> 0]
NoSplitter == [loaded |-> FALSE, api |-> "none", n_outputs |-> 0, levels |-> <<>>]
NoLevels == [got |-> FALSE, names |-> <<>>]

\* serde_json::from_str(&split_sequence_string): the levels the JSON names.
ParseSplitSequence(meta) == [i \in 1..Len(meta.names) |-> Level(meta.names[i])]

\* TractBackend::new: n_outputs is shape[2] if it is TDim::Val, else 0.
TractBackend_new(proto) == IF proto.dimKnown THEN proto.channels ELSE 0

\* NNSplit::new -> from_model (tract_backend.rs)
from_model(proto) ==
    IF ~proto.valid THEN [res |-> "TractError", s |-> NoSplitter]
    ELSE IF proto.meta.kind = "missing"
        THEN [res |-> "MissingSplitSequence", s |-> NoSplitter]
    ELSE IF proto.meta.kind = "garbage"
        THEN [res |-> "JsonError", s |-> NoSplitter]
    ELSE [res |-> "Ok",
          s |-> [loaded |-> TRUE, api |-> "rust",
                 n_outputs |-> TractBackend_new(proto),
                 levels |-> ParseSplitSequence(proto.meta)]]

\* NNSplit::new of the JavaScript binding (lib.rs); the binding keeps no
\* channel count of its own.
js_new(proto) ==
    IF ~proto.valid THEN [res |-> "BackendError", s |-> NoSplitter]
    ELSE IF proto.meta.kind = "missing"
        THEN [res |-> "MissingSplitSequence", s |-> NoSplitter]
    ELSE IF proto.meta.kind = "garbage"
        THEN [res |-> "InvalidJson", s |-> NoSplitter]
    ELSE [res |-> "Ok",
          s |-> [loaded |-> TRUE, api |-> "js", n_outputs |-> 0,
                 levels |-> ParseSplitSequence(proto.meta)]]

FromModel ==
    /\ loadRes = "none"
    /\ \E proto \in Protos :
        /\ lproto' = proto
        /\ splitter' = from_model(proto).s
        /\ loadRes' = from_model(proto).res
    /\ UNCHANGED <<levelsOut, cacheVars, treeVars, splitVars>>

JsNew ==
    /\ loadRes = "none"
    /\ \E proto \in Protos :
        /\ lproto' = proto
        /\ splitter' = js_new(proto).s
        /\ loadRes' = js_new(proto).res
    /\ UNCHANGED <<levelsOut, cacheVars, treeVars, splitVars>>

\* SplitSequence::get_levels as tests::getting_levels_works pins it: every
\* level of the sequence, _Whitespace included, in the sequence's order.
SplitSequence_get_levels(levels) == levels

get_levels_visible(s) ==
    LET all == SplitSequence_get_levels(s.levels)
        vis == SelectSeqOp(all, [i \in 1..Len(all) |-> ~Hidden(all[i])])
    IN  [i \in 1..Len(vis) |-> vis[i][1]]

\* NNSplit::get_levels of the binding: the name (x.0) of each level.
get_levels(s) ==
    LET all == SplitSequence_get_levels(s.levels)
    IN  [i \in 1..Len(all) |-> all[i][1]]

GetLevels ==
    /\ splitter.loaded
    /\ ~levelsOut.got
    /\ levelsOut' = [got |-> TRUE, names |-> get_levels(splitter)]
    /\ UNCHANGED <<lproto, splitter, loadRes, cacheVars, treeVars, splitVars>>

LoadNext == FromModel \/ JsNew \/ GetLevels

(***************************************************************************)
(* model_loader.rs                                                         *)
(***************************************************************************)
NumProcs == 2
Procs == 1..NumProcs

\* models.csv: the model names MODEL_DATA knows; "zz" is a name it does not.
MODEL_DATA == {"de"}
ModelNames == {"de", "zz"}
\* The bytes the URL of the known model serves.
RemoteBytes == <<1, 2>>

NoFile == [exists |-> FALSE, data |-> <<>>]
NoRet == [tag |-> "none", bytes |-> <<>>]
NoneYet == [has |-> FALSE, bytes |-> <<>>]

Prefixes(s) == {SubSeq(s, 1, n) : n \in 0..(Len(s) - 1)}

\* get_resource is entered: MODEL_DATA.get(model_name) or ModelNotFoundError.
GetResourceCall(p) ==
    /\ cpc[p] = "idle"
    /\ \E m \in ModelNames :
        /\ cmodel' = [cmodel EXCEPT ![p] = m]
        /\ IF m \in MODEL_DATA
             THEN /\ cpc' = [cpc EXCEPT ![p] = "read"]
                  /\ cret' = [cret EXCEPT ![p] = NoRet]
             ELSE /\ cpc' = [cpc EXCEPT ![p] = "done"]
                  /\ cret' = [cret EXCEPT ![p] =
                                [tag |-> "ModelNotFoundError", bytes |-> <<>>]]
    /\ cbytes' = [cbytes EXCEPT ![p] = <<>>]
    /\ cnet' = [cnet EXCEPT ![p] = FALSE]
    /\ csaw' = [csaw EXCEPT ![p] = NoFile]
    /\ cprior' = [cprior EXCEPT ![p] = lastOk]
    /\ UNCHANGED <<cache, lastOk, loadVars, treeVars, splitVars>>

\* if let Ok(bytes) = fs::read(&cache_path) { return Ok(...) }
ReadCache(p) ==
    /\ cpc[p] = "read"
    /\ IF cache.exists
         THEN /\ cpc' = [cpc EXCEPT ![p] = "done"]
              /\ cret' = [cret EXCEPT ![p] = [tag |-> "Ok", bytes |-> cache.data]]
              /\ lastOk' = [has |-> TRUE, bytes |-> cache.data]
         ELSE /\ cpc' = [cpc EXCEPT ![p] = "fetch"]
              /\ UNCHANGED <<cret, lastOk>>
    /\ csaw' = [csaw EXCEPT ![p] = cache]
    /\ UNCHANGED <<cache, cmodel, cbytes, cnet, cprior, loadVars, treeVars, splitVars>>

\* minreq::get(url).send(): the bytes, or NetworkError.
Fetch(p) ==
    /\ cpc[p] = "fetch"
    /\ cnet' = [cnet EXCEPT ![p] = TRUE]
    /\ \/ /\ cbytes' = [cbytes EXCEPT ![p] = RemoteBytes]
          /\ cpc' = [cpc EXCEPT ![p] = "mkdir"]
          /\ UNCHANGED cret
       \/ /\ cpc' = [cpc EXCEPT ![p] = "done"]
          /\ cret' = [cret EXCEPT ![p] = [tag |-> "NetworkError", bytes |-> <<>>]]
          /\ UNCHANGED cbytes
    /\ UNCHANGED <<cache, cmodel, csaw, cprior, lastOk, loadVars, treeVars, splitVars>>

\* std::fs::create_dir_all(cache_path.parent().unwrap())?
CreateDirAll(p) ==
    /\ cpc[p] = "mkdir"
    /\ \/ /\ cpc' = [cpc EXCEPT ![p] = "create"]
          /\ UNCHANGED cret
       \/ /\ cpc' = [cpc EXCEPT ![p] = "done"]
          /\ cret' = [cret EXCEPT ![p] = [tag |-> "IoError", bytes |-> <<>>]]
    /\ UNCHANGED <<cache, cmodel, cbytes, cnet, csaw, cprior, lastOk, loadVars, treeVars, splitVars>>

\* std::fs::File::create(&cache_path)?: creates the file, truncating it.
FileCreate(p) ==
    /\ cpc[p] = "create"
    /\ \/ /\ cache' = [exists |-> TRUE, data |-> <<>>]
          /\ cpc' = [cpc EXCEPT ![p] = "write"]
          /\ UNCHANGED cret
       \/ /\ cpc' = [cpc EXCEPT ![p] = "done"]
          /\ cret' = [cret EXCEPT ![p] = [tag |-> "IoError", bytes |-> <<>>]]
          /\ UNCHANGED cache
    /\ UNCHANGED <<cmodel, cbytes, cnet, csaw, cprior, lastOk, loadVars, treeVars, splitVars>>

\* file.write_all(&bytes)?; Ok((Cursor::new(bytes), cache_path))
\* A failing write_all leaves the bytes it had written.
WriteAll(p) ==
    /\ cpc[p] = "write"
    /\ \/ /\ cache' = [exists |-> TRUE, data |-> cbytes[p]]
          /\ cpc' = [cpc EXCEPT ![p] = "done"]
          /\ cret' = [cret EXCEPT ![p] = [tag |-> "Ok", bytes |-> cbytes[p]]]
          /\ lastOk' = [has |-> TRUE, bytes |-> cbytes[p]]
       \/ /\ \E part \in Prefixes(cbytes[p]) :
                cache' = [exists |-> TRUE, data |-> part]
          /\ cpc' = [cpc EXCEPT ![p] = "done"]
          /\ cret' = [cret EXCEPT ![p] = [tag |-> "IoError", bytes |-> <<>>]]
          /\ UNCHANGED lastOk
    /\ UNCHANGED <<cmodel, cbytes, cnet, csaw, cprior, loadVars, treeVars, splitVars>>

\* The caller has the result; the process may call again.
GetResourceReturn(p) ==
    /\ cpc[p] = "done"
    /\ cpc' = [cpc EXCEPT ![p] = "idle"]
    /\ UNCHANGED <<cache, cmodel, cbytes, cret, cnet, csaw, cprior, lastOk, loadVars, treeVars, splitVars>>

CacheNext ==
    \E p \in Procs :
        \/ GetResourceCall(p)
        \/ ReadCache(p)
        \/ Fetch(p)
        \/ CreateDirAll(p)
        \/ FileCreate(p)
        \/ WriteAll(p)
        \/ GetResourceReturn(p)

NoOptions ==
    [max_length |-> 0, stride |-> 0, padding |-> 0, length_divisor |-> 0,
     batch_size |-> 0]
NoOutcome == [tag |-> "none", err |-> "none", trees |-> <<>>]

(***************************************************************************)
(* The tree builder (engine) and impl From<core::Split> for Split (lib.rs) *)
(***************************************************************************)
MaxTextLen == 3

\* A text of n bytes, every byte different so that a byte dropped, doubled
\* or moved shows.
Texts == {[i \in 1..n |-> i] : n \in 0..MaxTextLen}

\* Probabilities in thousandths, as the sigmoid of predict yields them.
CurveValues == {500, 731}
Thresholds == {500, 731}
TreeLevelNames == {<<"S">>, <<"_", "W">>}

TextLeaf(text) == [kind |-> "Text", text |-> text, parts |-> <<>>]
NoTree == [kind |-> "none", text |-> <<>>, parts |-> <<>>]
Panic == [kind |-> "panic", text |-> <<>>, parts |-> <<>>]

RECURSIVE Concat(_)
Concat(ss) == IF ss = <<>> THEN <<>> ELSE Head(ss) \o Concat(Tail(ss))

Min(S) == CHOOSE x \in S : \A y \in S : x <= y

RECURSIVE SortedSeq(_)
SortedSeq(S) ==
    IF S = {} THEN <<>> ELSE <<Min(S)>> \o SortedSeq(S \ {Min(S)})

\* curve[i][level] > threshold, byte positions counted from 0.
Above(curve, thr, i, li) == curve[i + 1][li] > thr

\* The boundaries of level li in the span [a, b): a position above the
\* threshold whose predecessor in the span is not.
Boundaries(curve, thr, a, b, li) ==
    {i \in a..(b - 1) :
        /\ Above(curve, thr, i, li)
        /\ ~(i > a /\ Above(curve, thr, i - 1, li))}

\* The sub-spans of [a, b): each boundary byte ends its sub-span; a span
\* without a boundary is its own single sub-span.
SubSpans(curve, thr, a, b, li) ==
    LET cuts == SortedSeq({a, b} \cup
                          {i + 1 : i \in Boundaries(curve, thr, a, b, li)})
    IN  IF a = b THEN << <<a, b>> >>
        ELSE [k \in 1..(Len(cuts) - 1) |-> <<cuts[k], cuts[k + 1]>>]

\* build(text, curve, levels, threshold) on the span [a, b) from level li.
RECURSIVE Build(_, _, _, _, _, _, _)
Build(text, curve, levels, thr, a, b, li) ==
    IF li > Len(levels) THEN TextLeaf(SubSeq(text, a + 1, b))
    ELSE IF Hidden(levels[li]) THEN Build(text, curve, levels, thr, a, b, li + 1)
    ELSE LET spans == SubSpans(curve, thr, a, b, li)
         IN  [kind |-> "Split", text |-> SubSeq(text, a + 1, b),
              parts |-> [k \in 1..Len(spans) |->
                           Build(text, curve, levels, thr,
                                 spans[k][1], spans[k][2], li + 1)]]

BuildTree(text, curve, levels, thr) ==
    Build(text, curve, levels, thr, 0, Len(text), 1)

JsString(text) == [kind |-> "JsString", text |-> text, parts |-> <<>>]

RECURSIVE JsFromDropsLast(_)
JsFromDropsLast(split) ==
    IF split.kind = "Text" THEN Panic
    ELSE [kind |-> "JsSplit", text |-> split.text,
          parts |-> [k \in 1..(Len(split.parts) - 1) |->
                       IF split.parts[k].kind = "Split"
                       THEN JsFromDropsLast(split.parts[k])
                       ELSE JsString(split.parts[k].text)]]

\* impl From<core::Split> for Split: a Text panics; the parts of a Split are
\* converted Splits or, for Text parts, strings.
RECURSIVE JsFrom(_)
JsFrom(split) ==
    IF split.kind = "Text" THEN Panic
    ELSE [kind |-> "JsSplit", text |-> split.text,
          parts |-> [k \in 1..Len(split.parts) |->
                       IF split.parts[k].kind = "Split"
                       THEN JsFrom(split.parts[k])
                       ELSE JsString(split.parts[k].text)]]

Curves(n, nl) == [1..n -> [1..nl -> CurveValues]]

TreeInit ==
    /\ tText \in Texts
    /\ tLevels \in {[i \in 1..Len(ns) |-> Level(ns[i])] :
                      ns \in SeqsUpTo(TreeLevelNames, MaxLevels)}
    /\ tThreshold \in Thresholds
    /\ tCurve \in Curves(Len(tText), Len(tLevels))
    /\ tTree = NoTree
    /\ tJs = NoTree
    /\ tpc = "start"
    /\ sOpt = NoOptions
    /\ sLevels = <<>>
    /\ texts = <<>>
    /\ api = "none"
    /\ inputs = <<>>
    /\ indices = <<>>
    /\ preds = <<>>
    /\ start = 0
    /\ batches = <<>>
    /\ backendErr = "none"
    /\ counts = <<>>
    /\ curves = <<>>
    /\ outcome = NoOutcome
    /\ pc = "idle"
    /\ cache = NoFile
    /\ cpc = [p \in Procs |-> "idle"]
    /\ cmodel = [p \in Procs |-> "de"]
    /\ cbytes = [p \in Procs |-> <<>>]
    /\ cret = [p \in Procs |-> NoRet]
    /\ cnet = [p \in Procs |-> FALSE]
    /\ csaw = [p \in Procs |-> NoFile]
    /\ cprior = [p \in Procs |-> NoneYet]
    /\ lastOk = NoneYet
    /\ lproto = NoProto
    /\ splitter = NoSplitter
    /\ loadRes = "none"
    /\ levelsOut = NoLevels

\* The engine builds the tree of the text (what the Rust split returns).
TreeBuild ==
    /\ tpc = "start"
    /\ tTree' = BuildTree(tText, tCurve, tLevels, tThreshold)
    /\ tpc' = "built"
    /\ UNCHANGED <<tText, tLevels, tThreshold, tCurve, tJs, cacheVars, loadVars, splitVars>>

\* The binding converts the tree: let split: Split = x.into().
TreeConvert ==
    /\ tpc = "built"
    /\ tJs' = JsFrom(tTree)
    /\ tpc' = IF JsFrom(tTree).kind = "panic" THEN "panicked" ELSE "converted"
    /\ UNCHANGED <<tText, tLevels, tThreshold, tCurve, tTree, cacheVars, loadVars, splitVars>>

TreeNext == TreeBuild \/ TreeConvert

(***************************************************************************)
(* NNSplit::split: the windower and the aggregator (engine),               *)
(* TractBackend::predict (tract_backend.rs) and NNSplit::split (lib.rs)    *)
(***************************************************************************)
MaxLength == 3
MaxBatch == 2
DefaultThreshold == 500
MaxPadding == 1
MaxDivisor == 2
TextCounts == {0, 1, 2}

\* The valid options: stride <= max_length, padding >= 0, divisor >= 1.
Options ==
    {o \in [max_length : 1..MaxLength, stride : 1..MaxLength,
            padding : 0..MaxPadding, length_divisor : 1..MaxDivisor,
            batch_size : 1..MaxBatch] : o.stride <= o.max_length}

\* The lists of texts a call is given.
TextLists == UNION {[1..k -> Texts] : k \in TextCounts}

\* The split sequences of the splitters that run split calls; the backend
\* of each has as many output channels as the sequence has levels.
PipelineLevels ==
    {<<>>, <<Level(<<"S">>), Level(<<"_", "W">>)>>,
     <<Level(<<"S">>), Level(<<"T">>)>>}

CeilDiv(a, b) == (a + b - 1) \div b

\* The length of the padded byte sequence of a text of n bytes: padding on
\* both ends, then right-padded to a multiple of length_divisor.
PaddedLength(n, opt) ==
    CeilDiv(n + 2 * opt.padding, opt.length_divisor) * opt.length_divisor

NumWindowsFloor(P, opt) ==
    IF P <= opt.max_length THEN 1
    ELSE 1 + ((P - opt.max_length) \div opt.stride)

\* Windows start at 0 and advance by stride until one reaches the end of the
\* padded sequence; an empty sequence still has one window.
NumWindows(P, opt) ==
    IF P <= opt.max_length THEN 1
    ELSE 1 + CeilDiv(P - opt.max_length, opt.stride)

\* Byte q (from 0) of the padded sequence; padding bytes are 0.
PaddedByte(text, opt, q) ==
    IF q >= opt.padding /\ q < opt.padding + Len(text)
    THEN text[q - opt.padding + 1] ELSE 0

WindowsOf(t, text, opt) ==
    [k \in 1..NumWindows(PaddedLength(Len(text), opt), opt) |->
        [text |-> t, offset |-> (k - 1) * opt.stride,
         bytes |-> [p \in 1..opt.max_length |->
                      PaddedByte(text, opt, (k - 1) * opt.stride + p - 1)]]]

\* NNSplitLogic::get_inputs_and_indices: the windows of all texts, in order.
get_inputs_and_indices(ts, opt) ==
    Concat([t \in 1..Len(ts) |-> WindowsOf(t, ts[t], opt)])

\* The model: per position and channel a logit that depends on the window's
\* byte there; each row of a batch is computed on its own.
Logit(b, p, c) == ((b + p + c) % 3) - 1
TractModel_run(rows, nch) ==
    [i \in 1..Len(rows) |->
        [p \in 1..Len(rows[i]) |-> [c \in 1..nch |-> Logit(rows[i][p], p, c)]]]

\* 1 / (1 + exp(-x)), in thousandths.
Sigmoid(x) == CASE x = -1 -> 269 [] x = 0 -> 500 [] x = 1 -> 731

mapv_sigmoid(batch) ==
    [i \in 1..Len(batch) |->
        [p \in 1..Len(batch[i]) |->
            [c \in 1..Len(batch[i][p]) |-> Sigmoid(batch[i][p][c])]]]

\* Array3::<f32>::zeros((n, len, n_outputs))
Zeros(n, len, nch) == [i \in 1..n |-> [p \in 1..len |-> [c \in 1..nch |-> 0]]]

\* cmp::min(start + batch_size, input_shape[0])
BatchEnd(st, bs, n) == IF st + bs < n THEN st + bs ELSE n

AssignBatchAtZero(ps, st, en, batch) ==
    [w \in 1..Len(ps) |-> IF w <= en - st THEN batch[w] ELSE ps[w]]

\* preds.slice_mut(s![start..end, .., ..]).assign(&batch_preds)
AssignBatch(ps, st, en, batch) ==
    [w \in 1..Len(ps) |-> IF st < w /\ w <= en THEN batch[w - st] ELSE ps[w]]

\* The windows of text t that cover position q of its padded sequence.
Covering(t, q, idx, opt) ==
    {w \in 1..Len(idx) :
        /\ idx[w].text = t
        /\ idx[w].offset <= q
        /\ q < idx[w].offset + opt.max_length}

RECURSIVE SumOver(_, _, _, _, _)
SumOver(W, q, c, idx, ps) ==
    IF W = {} THEN 0
    ELSE LET w == Min(W)
         IN  ps[w][q - idx[w].offset + 1][c] + SumOver(W \ {w}, q, c, idx, ps)

\* The count buffer of text t over its padded sequence.
CountBuffer(t, ts, idx, opt) ==
    [q1 \in 1..PaddedLength(Len(ts[t]), opt) |->
        Cardinality(Covering(t, q1 - 1, idx, opt))]

\* sum / count at one position; 0 / 0 is not a number (-1).
Mean(t, q, c, idx, ps, opt) ==
    LET W == Covering(t, q, idx, opt)
    IN  IF W = {} THEN -1 ELSE SumOver(W, q, c, idx, ps) \div Cardinality(W)

\* The curve of text t: the means, the padding positions stripped.
CurveOf(t, ts, idx, ps, opt, nch) ==
    [i \in 1..Len(ts[t]) |->
        [c \in 1..nch |-> Mean(t, opt.padding + i - 1, c, idx, ps, opt)]]

\* NNSplitLogic::split: one tree per text, from the text's own curve.
logic_split(ts, ps, idx, opt, levels) ==
    [t \in 1..Len(ts) |->
        BuildTree(ts[t], CurveOf(t, ts, idx, ps, opt, Len(levels)),
                  levels, DefaultThreshold)]

js_collect_skips_first(splits) ==
    [i \in 1..(Len(splits) - 1) |-> JsFrom(splits[i + 1])]

\* splits.into_iter().map(|x| { let split: Split = x.into(); ... }).collect()
js_collect(splits) == [i \in 1..Len(splits) |-> JsFrom(splits[i])]

Init ==
    /\ sOpt \in Options
    /\ sLevels \in PipelineLevels
    /\ texts = <<>>
    /\ api = "none"
    /\ inputs = <<>>
    /\ indices = <<>>
    /\ preds = <<>>
    /\ start = 0
    /\ batches = <<>>
    /\ backendErr = "none"
    /\ counts = <<>>
    /\ curves = <<>>
    /\ outcome = NoOutcome
    /\ pc = "idle"
    /\ cache = NoFile
    /\ cpc = [p \in Procs |-> "idle"]
    /\ cmodel = [p \in Procs |-> "de"]
    /\ cbytes = [p \in Procs |-> <<>>]
    /\ cret = [p \in Procs |-> NoRet]
    /\ cnet = [p \in Procs |-> FALSE]
    /\ csaw = [p \in Procs |-> NoFile]
    /\ cprior = [p \in Procs |-> NoneYet]
    /\ lastOk = NoneYet
    /\ lproto = NoProto
    /\ splitter = NoSplitter
    /\ loadRes = "none"
    /\ levelsOut = NoLevels
    /\ tText = <<>>
    /\ tLevels = <<>>
    /\ tThreshold = 0
    /\ tCurve = <<>>
    /\ tTree = NoTree
    /\ tJs = NoTree
    /\ tpc = "start"

otherVars == <<cacheVars, loadVars, treeVars>>

\* split is entered: get_inputs_and_indices, then predict (which allocates
\* preds) or, in the binding, backend.predict(inputs).
SplitCall ==
    /\ pc = "idle"
    /\ \E a \in {"rust", "js"}, ts \in TextLists :
        LET ws == get_inputs_and_indices(ts, sOpt) IN
        /\ api' = a
        /\ texts' = ts
        /\ inputs' = [w \in 1..Len(ws) |-> ws[w].bytes]
        /\ indices' = [w \in 1..Len(ws) |->
                         [text |-> ws[w].text, offset |-> ws[w].offset]]
        /\ preds' = IF a = "rust"
                    THEN Zeros(Len(ws), sOpt.max_length, Len(sLevels))
                    ELSE <<>>
        /\ pc' = IF a = "rust" THEN "predict" ELSE "await"
    /\ start' = 0
    /\ batches' = <<>>
    /\ backendErr' = "none"
    /\ counts' = <<>>
    /\ curves' = <<>>
    /\ outcome' = NoOutcome
    /\ UNCHANGED <<sOpt, sLevels, otherVars>>

\* One iteration of predict's loop: run the sub-batch, sigmoid, assign.
PredictBatch ==
    /\ pc = "predict"
    /\ start < Len(inputs)
    /\ LET en == BatchEnd(start, sOpt.batch_size, Len(inputs))
           batch_preds == mapv_sigmoid(
               TractModel_run(SubSeq(inputs, start + 1, en), Len(sLevels)))
       IN  /\ preds' = AssignBatch(preds, start, en, batch_preds)
           /\ batches' = Append(batches, <<start, en>>)
    /\ start' = start + sOpt.batch_size
    /\ UNCHANGED <<sOpt, sLevels, texts, api, inputs, indices, backendErr,
                   counts, curves, outcome, pc, otherVars>>

\* self.model.run(..)? fails: predict returns the error, and split's
\* .expect("model failure.") panics.
PredictBatchFails ==
    /\ pc = "predict"
    /\ start < Len(inputs)
    /\ backendErr' = "ModelFailure"
    /\ outcome' = [tag |-> "panic", err |-> "model failure.", trees |-> <<>>]
    /\ pc' = "panicked"
    /\ UNCHANGED <<sOpt, sLevels, texts, api, inputs, indices, preds, start,
                   batches, counts, curves, otherVars>>

\* The loop is over: Ok(preds), and self.logic.split(texts, preds, indices).
SplitFinish ==
    /\ pc = "predict"
    /\ start >= Len(inputs)
    /\ counts' = [t \in 1..Len(texts) |-> CountBuffer(t, texts, indices, sOpt)]
    /\ curves' = [t \in 1..Len(texts) |->
                    CurveOf(t, texts, indices, preds, sOpt, Len(sLevels))]
    /\ outcome' = [tag |-> "Ok", err |-> "none",
                   trees |-> logic_split(texts, preds, indices, sOpt, sLevels)]
    /\ pc' = "done"
    /\ UNCHANGED <<sOpt, sLevels, texts, api, inputs, indices, preds, start,
                   batches, backendErr, otherVars>>

\* backend.predict(inputs).await of the binding yields the predictions.
JsPredictOk ==
    /\ pc = "await"
    /\ preds' = mapv_sigmoid(TractModel_run(inputs, Len(sLevels)))
    /\ pc' = "js_split"
    /\ UNCHANGED <<sOpt, sLevels, texts, api, inputs, indices, start, batches,
                   backendErr, counts, curves, outcome, otherVars>>

\* backend.predict(inputs).await? fails: the promise rejects with the error.
JsPredictFails ==
    /\ pc = "await"
    /\ backendErr' = "ModelFailure"
    /\ outcome' = [tag |-> "Err", err |-> "ModelFailure", trees |-> <<>>]
    /\ pc' = "failed"
    /\ UNCHANGED <<sOpt, sLevels, texts, api, inputs, indices, preds, start,
                   batches, counts, curves, otherVars>>

\* logic.split(&texts, slice_preds, indices), then every tree is converted.
JsFinish ==
    /\ pc = "js_split"
    /\ counts' = [t \in 1..Len(texts) |-> CountBuffer(t, texts, indices, sOpt)]
    /\ curves' = [t \in 1..Len(texts) |->
                    CurveOf(t, texts, indices, preds, sOpt, Len(sLevels))]
    /\ LET splits == js_collect(
                        logic_split(texts, preds, indices, sOpt, sLevels))
       IN  IF \E i \in 1..Len(splits) : splits[i].kind = "panic"
           THEN /\ outcome' = [tag |-> "panic",
                               err |-> "text can not be converted to a Split",
                               trees |-> <<>>]
                /\ pc' = "panicked"
           ELSE /\ outcome' = [tag |-> "Ok", err |-> "none", trees |-> splits]
                /\ pc' = "done"
    /\ UNCHANGED <<sOpt, sLevels, texts, api, inputs, indices, preds, start,
                   batches, backendErr, otherVars>>

\* The caller has the result; the buffers of the call are dropped.
SplitReturn ==
    /\ pc \in {"done", "failed"}
    /\ pc' = "idle"
    /\ texts' = <<>>
    /\ api' = "none"
    /\ inputs' = <<>>
    /\ indices' = <<>>
    /\ preds' = <<>>
    /\ start' = 0
    /\ batches' = <<>>
    /\ backendErr' = "none"
    /\ counts' = <<>>
    /\ curves' = <<>>
    /\ outcome' = NoOutcome
    /\ UNCHANGED <<sOpt, sLevels, otherVars>>

Next ==
    \/ SplitCall
    \/ PredictBatch
    \/ PredictBatchFails
    \/ SplitFinish
    \/ JsPredictOk
    \/ JsPredictFails
    \/ JsFinish
    \/ SplitReturn

CacheInit ==
    /\ cache = NoFile
    /\ cpc = [p \in Procs |-> "idle"]
    /\ cmodel = [p \in Procs |-> "de"]
    /\ cbytes = [p \in Procs |-> <<>>]
    /\ cret = [p \in Procs |-> NoRet]
    /\ cnet = [p \in Procs |-> FALSE]
    /\ csaw = [p \in Procs |-> NoFile]
    /\ cprior = [p \in Procs |-> NoneYet]
    /\ lastOk = NoneYet
    /\ lproto = NoProto
    /\ splitter = NoSplitter
    /\ loadRes = "none"
    /\ levelsOut = NoLevels
    /\ tText = <<>>
    /\ tLevels = <<>>
    /\ tThreshold = 0
    /\ tCurve = <<>>
    /\ tTree = NoTree
    /\ tJs = NoTree
    /\ tpc = "start"
    /\ sOpt = NoOptions
    /\ sLevels = <<>>
    /\ texts = <<>>
    /\ api = "none"
    /\ inputs = <<>>
    /\ indices = <<>>
    /\ preds = <<>>
    /\ start = 0
    /\ batches = <<>>
    /\ backendErr = "none"
    /\ counts = <<>>
    /\ curves = <<>>
    /\ outcome = NoOutcome
    /\ pc = "idle"

LoadInit ==
    /\ lproto = NoProto
    /\ splitter = NoSplitter
    /\ loadRes = "none"
    /\ levelsOut = NoLevels
    /\ cache = NoFile
    /\ cpc = [p \in Procs |-> "idle"]
    /\ cmodel = [p \in Procs |-> "de"]
    /\ cbytes = [p \in Procs |-> <<>>]
    /\ cret = [p \in Procs |-> NoRet]
    /\ cnet = [p \in Procs |-> FALSE]
    /\ csaw = [p \in Procs |-> NoFile]
    /\ cprior = [p \in Procs |-> NoneYet]
    /\ lastOk = NoneYet
    /\ tText = <<>>
    /\ tLevels = <<>>
    /\ tThreshold = 0
    /\ tCurve = <<>>
    /\ tTree = NoTree
    /\ tJs = NoTree
    /\ tpc = "start"
    /\ sOpt = NoOptions
    /\ sLevels = <<>>
    /\ texts = <<>>
    /\ api = "none"
    /\ inputs = <<>>
    /\ indices = <<>>
    /\ preds = <<>>
    /\ start = 0
    /\ batches = <<>>
    /\ backendErr = "none"
    /\ counts = <<>>
    /\ curves = <<>>
    /\ outcome = NoOutcome
    /\ pc = "idle"

(***************************************************************************)
(* Specifications                                                          *)
(***************************************************************************)
SpecCache == CacheInit /\ [][CacheNext]_vars

SpecLoad == LoadInit /\ [][LoadNext]_vars

SpecTree == TreeInit /\ [][TreeNext]_vars

Spec == Init /\ [][Next]_vars

(***************************************************************************)
(* Properties                                                              *)
(***************************************************************************)
\* C5: loading fails, and constructs no splitter, when the split_sequence
\* key is missing, when its value does not parse, and when the number of
\* levels differs from the backend's output channel count (a channel
\* dimension that is not concrete included); an error constructs nothing.
C5_LoadRejectsMalformed ==
    /\ splitter.loaded =>
          /\ loadRes = "Ok"
          /\ lproto.meta.kind = "json"
          /\ splitter.api = "rust" =>
                /\ lproto.dimKnown
                /\ Len(splitter.levels) = lproto.channels
                /\ Len(splitter.levels) = splitter.n_outputs
    /\ loadRes \notin {"none", "Ok"} => ~splitter.loaded

\* C4 as stated: getLevels returns the names of the non-hidden levels only,
\* in the order of the split_sequence metadata.
C4_OnlyVisibleLevels ==
    levelsOut.got =>
        /\ \A i \in 1..Len(levelsOut.names) : ~Hidden(Level(levelsOut.names[i]))
        /\ levelsOut.names =
             SelectSeqOp(lproto.meta.names,
                         [i \in 1..Len(lproto.meta.names) |->
                             ~Hidden(Level(lproto.meta.names[i]))])

\* C4 amended: getLevels returns the name of every level the split_sequence
\* metadata declares, hidden levels included, in the declared order.
C4_AllLevelsInOrder ==
    levelsOut.got => levelsOut.names = lproto.meta.names

C4_Witness ==
    /\ levelsOut.got
    /\ Len(levelsOut.names) = 2
    /\ ~Hidden(Level(levelsOut.names[1]))
    /\ Hidden(Level(levelsOut.names[2]))

IsLeaf(t) == t.kind \in {"Text", "JsString"}

\* The leaf texts of a tree, concatenated from left to right.
RECURSIVE Leaves(_)
Leaves(t) ==
    IF IsLeaf(t) THEN t.text
    ELSE Concat([k \in 1..Len(t.parts) |-> Leaves(t.parts[k])])

\* At every node, the node's text is its children's texts in order.
RECURSIVE Reconstructs(_)
Reconstructs(t) ==
    IsLeaf(t) \/
        /\ t.text = Concat([k \in 1..Len(t.parts) |-> t.parts[k].text])
        /\ \A k \in 1..Len(t.parts) : Reconstructs(t.parts[k])

\* Every node has at least one child.
RECURSIVE NoEmptyNode(_)
NoEmptyNode(t) ==
    IsLeaf(t) \/
        /\ Len(t.parts) >= 1
        /\ \A k \in 1..Len(t.parts) : NoEmptyNode(t.parts[k])

RECURSIVE CountLeaves(_)
CountLeaves(t) ==
    IF IsLeaf(t) THEN 1
    ELSE IF t.parts = <<>> THEN 0
    ELSE CountLeaves(Head(t.parts))
         + CountLeaves([t EXCEPT !.parts = Tail(t.parts)])

C10_ConversionNeverPanics ==
    tpc \in {"built", "converted", "panicked"} =>
        /\ tTree.kind = "Split"
        /\ NoEmptyNode(tTree)
        /\ tpc # "panicked"

\* C2: split returns exactly one tree per input text, and the i-th tree is
\* the tree of the i-th text: it carries that text, its leaves spell that
\* text, and it is what the engine builds from the i-th text's curve.
C2_OneTreePerText ==
    outcome.tag = "Ok" =>
        /\ Len(outcome.trees) = Len(texts)
        /\ \A i \in 1..Len(texts) :
              /\ outcome.trees[i].text = texts[i]
              /\ Leaves(outcome.trees[i]) = texts[i]
              /\ LET built == BuildTree(texts[i], curves[i], sLevels,
                                        DefaultThreshold)
                 IN  outcome.trees[i] =
                        IF api = "js" THEN JsFrom(built) ELSE built

C2_Witness ==
    /\ outcome.tag = "Ok"
    /\ api = "js"
    /\ Len(texts) = 2
    /\ Len(texts[1]) = 1
    /\ Len(texts[2]) = 3
    /\ Len(inputs) >= 3
    /\ sOpt.batch_size = 2

\* C3: when the backend fails on a sub-batch, split returns the backend's
\* error to the caller as an error value, with no tree, and the failed
\* sub-batch is not run again.
C3_BackendErrorReturned ==
    backendErr # "none" =>
        /\ outcome.tag = "Err"
        /\ outcome.err = backendErr
        /\ outcome.trees = <<>>

\* C7: the windows of a text cover every position of its padded byte range,
\* so the count buffer is at least 1 everywhere, and the curve has one value
\* per byte of the text per level.
C7_WindowsCover ==
    /\ pc # "idle" =>
          \A t \in 1..Len(texts) :
              \A q \in 0..(PaddedLength(Len(texts[t]), sOpt) - 1) :
                  Covering(t, q, indices, sOpt) # {}
    /\ outcome.tag = "Ok" =>
          \A t \in 1..Len(texts) :
              /\ Len(counts[t]) = PaddedLength(Len(texts[t]), sOpt)
              /\ \A q1 \in 1..Len(counts[t]) : counts[t][q1] >= 1
              /\ Len(curves[t]) = Len(texts[t])
              /\ \A i \in 1..Len(curves[t]) :
                    /\ Len(curves[t][i]) = Len(sLevels)
                    /\ \A c \in 1..Len(sLevels) : curves[t][i][c] >= 0

C7_Witness ==
    /\ outcome.tag = "Ok"
    /\ Len(texts) = 1
    /\ Len(texts[1]) = 3
    /\ sOpt.max_length = 2
    /\ sOpt.stride = 2
    /\ sOpt.padding = 1
    /\ sOpt.length_divisor = 2
    /\ Len(inputs) = 3
    /\ Len(sLevels) = 2

\* C8: the sub-batches of predict are consecutive ranges that partition the
\* windows, row i of the tensor is the prediction of window i, and the
\* tensor predict returns is the one a single batch of all windows gives.
C8_BatchingPreservesOrder ==
    (api = "rust" /\ pc \in {"predict", "done"}) =>
        /\ \A k \in 1..Len(batches) :
              /\ batches[k][1] = (IF k = 1 THEN 0 ELSE batches[k - 1][2])
              /\ batches[k][1] < batches[k][2]
              /\ batches[k][2] <= Len(inputs)
        /\ \A w \in 1..Len(inputs) :
              (\E k \in 1..Len(batches) : batches[k][1] < w /\ w <= batches[k][2])
                  => preds[w] = mapv_sigmoid(
                                    TractModel_run(<<inputs[w]>>, Len(sLevels)))[1]
        /\ pc = "done" =>
              /\ Len(inputs) > 0 => batches[Len(batches)][2] = Len(inputs)
              /\ preds = mapv_sigmoid(TractModel_run(inputs, Len(sLevels)))

C8_Witness ==
    /\ api = "rust"
    /\ pc = "done"
    /\ Len(inputs) = 3
    /\ sOpt.batch_size = 2
    /\ Len(batches) = 2
    /\ Len(sLevels) = 2
    /\ preds[1] # preds[3]

\* C6: a call that finds the cache file readable returns the file's bytes and
\* sends no network request; a call that does not, fetches, writes the bytes
\* to the cache file and returns them; and a successful call that started
\* after another call had succeeded is served from the cache, without a
\* network request, with the bytes that call returned.
C6_CachedAfterSuccess ==
    \A p \in Procs :
        (cpc[p] = "done" /\ cret[p].tag = "Ok") =>
            /\ csaw[p].exists =>
                    (~cnet[p] /\ cret[p].bytes = csaw[p].data)
            /\ ~csaw[p].exists =>
                    (cnet[p] /\ cret[p].bytes = cbytes[p])
            /\ cprior[p].has =>
                    (~cnet[p] /\ cret[p].bytes = cprior[p].bytes)

\* C9: "if the file can be read, the data is already cached": a readable
\* cache file holds the complete bytes of a successful fetch, and a call
\* served from the cache never returns an empty or partly written file.
C9_ReadableIsComplete ==
    /\ cache.exists => cache.data = RemoteBytes
    /\ \A p \in Procs :
          (cpc[p] = "done" /\ cret[p].tag = "Ok" /\ csaw[p].exists) =>
              cret[p].bytes = RemoteBytes

====
